---- MODULE Spec2Model ----
\* Asynchronous push job of the Mergin client (mergin/client_push.py):
\* push_project_async, the worker threads running _do_upload, and the calls the
\* controlling thread makes afterwards (wait, is_running, finalize, cancel).
\* The server, the transport (mc.post) and the local-project collaborator
\* (MerginProject) are the environment: their answers are drawn from small sets.
\* Spec is the job with its threads; FairSpec is the job from the moment its
\* units are submitted, with the threads scheduled fairly; PrepSpec follows one
\* push file by file, with the files on disk in view.
EXTENDS Integers, Sequences, FiniteSets, TLC

\* ---------------------------------------------------------------- bounds
\* The change set holds at most MaxEntries entries over its four categories.
MaxEntries == 2
\* The files to upload hold at most MaxUnits chunks in total.
MaxUnits == 2
\* push_project_finalize is called at most MaxFinalize times on a job.
MaxFinalize == 1

\* ---------------------------------------------------------------- constants
UPLOAD_CHUNK_SIZE == 10 * 1024 * 1024
\* ThreadPoolExecutor(max_workers=4)
max_workers == 4

\* ---------------------------------------------------------------- helpers
CeilDiv(a, b) == (a + b - 1) \div b

Min(a, b) == IF a <= b THEN a ELSE b

RECURSIVE SumSeq(_)
SumSeq(s) == IF s = <<>> THEN 0 ELSE Head(s) + SumSeq(Tail(s))

RECURSIVE Flatten(_)
Flatten(ss) == IF ss = <<>> THEN <<>> ELSE Head(ss) \o Flatten(Tail(ss))

SeqsUpTo(S, n) == UNION {[1..k -> S] : k \in 0..n}

\* ---------------------------------------------------------------- errors
\* The names bound in the module's namespace: its imports and its definitions.
ModuleNames ==
    {"json", "hashlib", "concurrent", "threading",
     "UPLOAD_CHUNK_SIZE", "ClientError", "MerginProject",
     "UploadJob", "UploadQueueItem", "push_project_async", "push_project_wait",
     "push_project_is_running", "push_project_finalize", "push_project_cancel",
     "_do_upload"}

NoError == [type |-> "None", detail |-> "", extra |-> 0]

\* An exception raised by the interpreter itself (assert, a missing key).
Builtin(type, detail) == [type |-> type, detail |-> detail, extra |-> 0]

\* `raise Name(detail)`: the name is looked up first; an unbound name raises
\* NameError in place of the intended exception, whose arguments are never used.
Raise(name, detail, extra) ==
    IF name \in ModuleNames
    THEN [type |-> name, detail |-> detail, extra |-> extra]
    ELSE [type |-> "NameError", detail |-> name, extra |-> 0]

\* ---------------------------------------------------------------- inputs
\* Sizes of the files of a change set: empty, exactly one chunk, and for each
\* chunk count a file whose last chunk holds one byte.
FileSizes ==
    {0, UPLOAD_CHUNK_SIZE}
        \cup {(n - 1) * UPLOAD_CHUNK_SIZE + 1 : n \in 1..MaxUnits}

\* How many of the files to upload are "added": the first half.
AddedCount(n) == (n + 1) \div 2

\* The chunk ids get_push_changes assigns to the file at position f: one per
\* UPLOAD_CHUNK_SIZE-sized slice.
ChunkIds(f, size) == [i \in 1..CeilDiv(size, UPLOAD_CHUNK_SIZE) |-> <<f, i>>]

FileDesc(f, size) == [path |-> f, size |-> size, chunks |-> ChunkIds(f, size)]

\* Change sets: sizes of the files to upload, how many of them are "added" (the
\* rest "updated"), and the removed and renamed entries.
MakeChanges(sizes, k, r, m) ==
    [added   |-> [i \in 1..k |-> FileDesc(i, sizes[i])],
     updated |-> [i \in 1..(Len(sizes) - k) |-> FileDesc(k + i, sizes[k + i])],
     removed |-> [i \in 1..r |-> [path |-> Len(sizes) + i]],
     renamed |-> [i \in 1..m |-> [path |-> Len(sizes) + r + i]]]

ChangeSets ==
    {MakeChanges(sizes, k, r, m) :
        <<sizes, k, r, m>> \in
            {t \in SeqsUpTo(FileSizes, MaxEntries) \X (0..MaxEntries)
                    \X (0..MaxEntries) \X (0..MaxEntries) :
                /\ t[2] = AddedCount(Len(t[1]))
                /\ Len(t[1]) + t[3] + t[4] <= MaxEntries
                /\ SumSeq([i \in 1..Len(t[1]) |->
                             CeilDiv(t[1][i], UPLOAD_CHUNK_SIZE)]) <= MaxUnits}}

NoChanges == MakeChanges(<<>>, 0, 0, 0)

LocalVersions == {"v0", "v1"}
\* project_info(...)["version"]: "" stands for an absent (falsy) version.
ServerVersions == {"", "v0", "v1"}
\* Free space (bytes) reported by enough_storage_available.
FreeSpaces == {0, 5 * 1024 * 1024}

\* Response of the begin-push request: a transaction with the server's version
\* and files, or an error payload.
BeginResponses ==
    {[transaction |-> "T1", version |-> "v2", files |-> "server"],
     [error |-> "refused"]}

\* Outcome of a request: the parsed response, or ClientError raised by mc.post.
PostRaises == [raised |-> TRUE, resp |-> [error |-> "transport"]]
PostReturns(resp) == [raised |-> FALSE, resp |-> resp]

BeginOutcomes == {PostRaises} \cup {PostReturns(r) : r \in BeginResponses}

\* Response of the finish request.
FinishResponses ==
    {[version |-> "v2", files |-> "server"], [error |-> "conflict"]}

FinishOutcomes == {PostRaises} \cup {PostReturns(r) : r \in FinishResponses}

\* The cancel request's response is ignored; the request itself may raise.
CancelOutcomes == {PostRaises, PostReturns([status |-> "ok"])}

\* Acknowledgement of a chunk upload: whether the size and the checksum the
\* server reports equal the locally computed ones.
ChunkAcks == [size_ok : BOOLEAN, checksum_ok : BOOLEAN]

ChunkOutcomes == {PostRaises} \cup {PostReturns(a) : a \in ChunkAcks}

\* ---------------------------------------------------------------- state
VARIABLES
    metadata,          \* mp.metadata: name, version, files
    applied,           \* number of calls of mp.apply_push_changes
    reqs,              \* requests issued: begin, chunk (per chunk id), finish, cancel
    ctl,               \* what the controlling thread is in
    inputs,            \* history: what the collaborators answered to a
                       \* push_project_async that returned no pending job
    async_result,      \* outcome of push_project_async
    last,              \* the last call completed on the job, and its outcome
    finalize_calls,    \* number of executions of push_project_finalize
    job,               \* UploadJob: the fields written once at construction
    executor,          \* job.executor: "None", "open" or "shutdown"
    server_resp,       \* job.server_resp
    is_cancelled,      \* job.is_cancelled
    transferred_size,  \* job.transferred_size
    futures,           \* job.futures: per unit, the future's state and exception
    frames,            \* per unit, the position of its _do_upload call and the
                       \* value of job.transferred_size it has read
    began_cancelled,   \* history: units that began executing with the flag set
    at_cancel,         \* history: when cancel was first called, the units past
                       \* the flag check and the value of transferred_size
    posted,            \* history: how the finish and the cancel request of the
                       \* last push_project_finalize ended ("none": not issued)
    prep               \* the preparation and upload of one file, followed step
                       \* by step (specification PrepSpec only)

vars == <<metadata, applied, reqs, ctl, inputs, async_result, last, finalize_calls, job, executor, server_resp, is_cancelled,
          transferred_size, futures, frames, began_cancelled, at_cancel,
          posted, prep>>

jobvars == <<job, executor, server_resp, is_cancelled, transferred_size, futures,
             frames, began_cancelled, at_cancel>>

ProjectName == "user/project"

NoResult == [outcome |-> "none", value |-> "None", exc |-> NoError]
Returned(v) == [outcome |-> "returned", value |-> v, exc |-> NoError]
Raised(e) == [outcome |-> "raised", value |-> "None", exc |-> e]

Call(name, result) == [call |-> name, result |-> result]
NoCall == Call("none", NoResult)

\* UploadJob.__init__
UploadJob(project_path, changes, transaction_id) ==
    [exists |-> TRUE, project_path |-> project_path, changes |-> changes,
     transaction_id |-> transaction_id, total_size |-> 0,
     upload_queue_items |-> <<>>]

NoJob ==
    [exists |-> FALSE, project_path |-> "", changes |-> NoChanges,
     transaction_id |-> "None", total_size |-> 0, upload_queue_items |-> <<>>]

NoServerResp == [none |-> TRUE]

\* cancel counts the cancel requests of finalize, unit_cancel those of each unit.
NoReqs == [begin |-> 0, chunk |-> <<>>, finish |-> 0, cancel |-> 0,
           unit_cancel |-> <<>>]

\* The answers a push_project_async call gets: the server's version of the
\* project, whether the storage suffices and how much is free, the local
\* changes, and the outcome of the begin-push request (should it be issued).
Inputs(local, sv, enough, freespace, changes, begin) ==
    [called |-> TRUE, local_version |-> local, server_version |-> sv,
     enough_free_space |-> enough, freespace |-> freespace,
     changes |-> changes, begin |-> begin]

NoInputs ==
    [called |-> FALSE, local_version |-> "", server_version |-> "",
     enough_free_space |-> TRUE, freespace |-> 0, changes |-> NoChanges,
     begin |-> PostRaises]

AllInputs ==
    {Inputs(metadata.version, sv, enough, freespace, changes, begin) :
        sv \in ServerVersions, enough \in BOOLEAN, freespace \in FreeSpaces,
        changes \in ChangeSets, begin \in BeginOutcomes}

NotPosted == [finish |-> "none", cancel |-> "none"]

\* How a request ended, for the record: it raised, or what it answered.
Ended(outcome) ==
    IF outcome.raised THEN "raised"
    ELSE IF "error" \in DOMAIN outcome.resp THEN "error"
    ELSE "ok"

NoPrep == [pc |-> "off"]

\* The state before push_project_async, the file-by-file view aside.
InitJob ==
    /\ metadata \in {[name |-> ProjectName, version |-> v, files |-> "local"] :
                        v \in LocalVersions}
    /\ applied = 0
    /\ reqs = NoReqs
    /\ ctl = "idle"
    /\ inputs = NoInputs
    /\ async_result = NoResult
    /\ last = NoCall
    /\ finalize_calls = 0
    /\ job = NoJob
    /\ executor = "None"
    /\ server_resp = NoServerResp
    /\ is_cancelled = FALSE
    /\ transferred_size = 0
    /\ futures = <<>>
    /\ frames = <<>>
    /\ began_cancelled = {}
    /\ at_cancel = [inflight |-> {}, transferred |-> 0]
    /\ posted = NotPosted

Init == InitJob /\ prep = NoPrep

\* ---------------------------------------------------------------- finalize
\* Mutant: the assertion stripped (it checks nothing).
FinalizeAssertion_Stripped(transferred, total) == TRUE

\* The assertion at the start of push_project_finalize.
FinalizeAssertion(transferred, total) == transferred = total

\* push_project_finalize once the pool is shut down, for a job j with the
\* counter at `transferred` and job.server_resp at `sresp`; fin and can are the
\* outcomes of the finish and the cancel request, should they be issued.
\* The value is what finalize returns or raises and the state it leaves.
push_project_finalize(j, with_upload, transferred, sresp, md, ap, rq, fin, can) ==
    LET unchanged(r, q, sr, po) ==
            [result |-> r, metadata |-> md, applied |-> ap,
             server_resp |-> sr, reqs |-> q, posted |-> po]
        finished == [finish |-> IF with_upload THEN Ended(fin) ELSE "none",
                     cancel |-> "none"]
        finish_rq == [rq EXCEPT !.finish = @ + 1]
        resp == IF with_upload THEN fin.resp ELSE sresp
        rq2 == IF with_upload THEN finish_rq ELSE rq
    IN  IF ~FinalizeAssertion(transferred, j.total_size)
        THEN unchanged(Raised(Builtin("AssertionError", "")), rq, sresp,
                       NotPosted)
        ELSE IF with_upload /\ fin.raised
        THEN LET cancel_rq == [finish_rq EXCEPT !.cancel = @ + 1]
             IN  IF can.raised
                 THEN unchanged(Raised(Raise("ClientError", "cancel", 0)),
                                cancel_rq, sresp,
                                [finish |-> "raised", cancel |-> "raised"])
                 ELSE unchanged(Returned("error"), cancel_rq, sresp,
                                [finish |-> "raised", cancel |-> "ok"])
        ELSE IF "error" \in DOMAIN resp
        THEN unchanged(Raised(Raise("ClientError", resp.error, 0)), rq2, resp,
                       finished)
        ELSE [result |-> Returned("None"),
              metadata |-> [name |-> j.project_path, version |-> resp.version,
                            files |-> resp.files],
              applied |-> ap + 1,
              server_resp |-> resp,
              reqs |-> rq2,
              posted |-> finished]

\* ---------------------------------------------------------------- start
\* server_info["version"] if server_info["version"] else "v0"
ServerVersion(v) == IF v # "" THEN v ELSE "v0"

\* Mutant: len(changes), the number of categories of the dictionary.
ChangesCount_DictLen(changes) == 4

\* Mutant: only the files to upload are counted.
ChangesCount_UploadsOnly(changes) == Len(changes.added) + Len(changes.updated)

\* sum(len(v) for v in changes.values())
ChangesCount(changes) ==
    Len(changes.added) + Len(changes.updated) + Len(changes.removed)
        + Len(changes.renamed)

\* data['changes']["added"] + data['changes']["updated"]
UploadFiles(changes) == changes.added \o changes.updated

\* Mutant: every unit counts as a full chunk, the last one included.
ChunkSize_NoMin(file_size, chunk_index) == UPLOAD_CHUNK_SIZE

\* Mutant: the chunk index taken as one-based.
ChunkSize_OneBased(file_size, chunk_index) ==
    Min(UPLOAD_CHUNK_SIZE, file_size - (chunk_index + 1) * UPLOAD_CHUNK_SIZE)

\* min(UPLOAD_CHUNK_SIZE, file['size'] - chunk_index * UPLOAD_CHUNK_SIZE)
ChunkSize(file_size, chunk_index) ==
    Min(UPLOAD_CHUNK_SIZE, file_size - chunk_index * UPLOAD_CHUNK_SIZE)

\* file['location']: the diff payload under the metadata directory when the
\* descriptor has a diff, the file itself otherwise.
Location(file) ==
    IF "diff" \in DOMAIN file
    THEN [dir |-> "meta", path |-> file.diff.path]
    ELSE [dir |-> "project", path |-> file.path]

\* The UploadQueueItems of one file: one per chunk id, indexed from zero.
FileItems(file, transaction_id) ==
    [i \in 1..Len(file.chunks) |->
        [file_path |-> Location(file),
         size |-> ChunkSize(file.size, i - 1),
         transaction_id |-> transaction_id,
         chunk_id |-> file.chunks[i],
         chunk_index |-> i - 1]]

UploadQueueItems(upload_files, transaction_id) ==
    Flatten([f \in 1..Len(upload_files) |->
                FileItems(upload_files[f], transaction_id)])

\* total_size += file['size']
TotalSize(upload_files) ==
    SumSeq([f \in 1..Len(upload_files) |-> upload_files[f].size])

\* Mutant: the version check never rejects.
StaleVersion_Never(local_version, server_version) == FALSE

\* if local_version != server_version
StaleVersion(local_version, server_version) == local_version # server_version

\* if not sum(len(v) for v in changes.values())
IsEmptyChanges(changes) == ChangesCount(changes) = 0

\* The version check fails: ClientError, before anything else is done.
AsyncStaleVersion ==
    /\ ctl = "idle"
    /\ \E in \in AllInputs :
        /\ StaleVersion(in.local_version, ServerVersion(in.server_version))
        /\ inputs' = in
    /\ async_result' = Raised(Raise("ClientError", "Update your local repository", 0))
    /\ ctl' = "end"
    /\ UNCHANGED <<prep, posted,
                   metadata, applied, reqs, last, finalize_calls, jobvars>>

\* Versions agree and enough_storage_available reports too little space.
AsyncNoStorage ==
    /\ ctl = "idle"
    /\ \E in \in AllInputs :
        /\ ~StaleVersion(in.local_version, ServerVersion(in.server_version))
        /\ ~in.enough_free_space
        /\ inputs' = in
        /\ async_result' =
              Raised(Raise("SyncError", "Storage limit has been reached",
                           in.freespace \div (1024 * 1024)))
    /\ ctl' = "end"
    /\ UNCHANGED <<prep, posted,
                   metadata, applied, reqs, last, finalize_calls, jobvars>>

\* Nothing changed locally: plain `return`.
AsyncNoChanges ==
    /\ ctl = "idle"
    /\ \E in \in AllInputs :
        /\ ~StaleVersion(in.local_version, ServerVersion(in.server_version))
        /\ in.enough_free_space
        /\ IsEmptyChanges(in.changes)
        /\ inputs' = in
    /\ async_result' = Returned("None")
    /\ ctl' = "end"
    /\ UNCHANGED <<prep, posted,
                   metadata, applied, reqs, last, finalize_calls, jobvars>>

\* The begin-push request raises, or its response lacks the transaction id that
\* the files to upload need: no job is created.
AsyncBeginFails ==
    /\ ctl = "idle"
    /\ \E in \in AllInputs :
        /\ ~StaleVersion(in.local_version, ServerVersion(in.server_version))
        /\ in.enough_free_space
        /\ ~IsEmptyChanges(in.changes)
        /\ \/ /\ in.begin.raised
              /\ async_result' = Raised(Raise("ClientError", "transport", 0))
           \/ /\ ~in.begin.raised
              /\ UploadFiles(in.changes) # <<>>
              /\ "transaction" \notin DOMAIN in.begin.resp
              /\ async_result' = Raised(Builtin("KeyError", "transaction"))
        /\ inputs' = in
    /\ reqs' = [reqs EXCEPT !.begin = @ + 1]
    /\ ctl' = "end"
    /\ UNCHANGED <<prep, posted,
                   metadata, applied, last, finalize_calls, jobvars>>

\* Only removals and renames: the job has no transaction id and no executor and
\* push_project_async finalizes it itself.
AsyncNoUpload ==
    /\ ctl = "idle"
    /\ \E in \in AllInputs :
        /\ ~StaleVersion(in.local_version, ServerVersion(in.server_version))
        /\ in.enough_free_space
        /\ ~IsEmptyChanges(in.changes)
        /\ ~in.begin.raised
        /\ UploadFiles(in.changes) = <<>>
        /\ inputs' = in
        /\ LET j == UploadJob(metadata.name, in.changes, "None")
               rq == [reqs EXCEPT !.begin = @ + 1]
               f == push_project_finalize(j, FALSE, 0, in.begin.resp, metadata,
                                          applied, rq, PostRaises, PostRaises)
           IN  /\ job' = j
               /\ server_resp' = f.server_resp
               /\ metadata' = f.metadata
               /\ applied' = f.applied
               /\ reqs' = f.reqs
               /\ last' = Call("finalize", f.result)
               /\ posted' = f.posted
               /\ async_result' = IF f.result.outcome = "raised"
                                  THEN f.result ELSE Returned("None")
    /\ ctl' = "end"
    /\ finalize_calls' = finalize_calls + 1
    /\ UNCHANGED <<prep,
                   executor, is_cancelled, transferred_size, futures, frames,
                   began_cancelled, at_cancel>>

\* Files to upload: the job gets its units and its pool, every unit is submitted
\* and the pending job is returned.
AsyncStartUpload ==
    /\ ctl = "idle"
    /\ \E in \in AllInputs :
        /\ ~StaleVersion(in.local_version, ServerVersion(in.server_version))
        /\ in.enough_free_space
        /\ ~IsEmptyChanges(in.changes)
        /\ ~in.begin.raised
        /\ UploadFiles(in.changes) # <<>>
        /\ "transaction" \in DOMAIN in.begin.resp
        /\ LET txn == in.begin.resp.transaction
               items == UploadQueueItems(UploadFiles(in.changes), txn)
           IN  /\ job' = [UploadJob(metadata.name, in.changes, txn)
                            EXCEPT !.total_size = TotalSize(UploadFiles(in.changes)),
                                   !.upload_queue_items = items]
               /\ futures' = [u \in 1..Len(items) |->
                                [state |-> "PENDING", exception |-> NoError]]
               /\ frames' = [u \in 1..Len(items) |-> [at |-> "queued", loaded |-> 0]]
               /\ reqs' = [reqs EXCEPT !.begin = @ + 1,
                                       !.chunk = [u \in 1..Len(items) |-> 0],
                                       !.unit_cancel = [u \in 1..Len(items) |-> 0]]
    /\ executor' = "open"
    /\ async_result' = Returned("job")
    /\ ctl' = "ready"
    /\ UNCHANGED <<prep, posted,
                   metadata, applied, inputs, last, finalize_calls, server_resp,
                   is_cancelled, transferred_size, began_cancelled,
                   at_cancel>>

\* ---------------------------------------------------------------- workers
Units == 1..Len(futures)

Item(u) == job.upload_queue_items[u]

Pending == {u \in Units : futures[u].state = "PENDING"}
Running == {u \in Units : futures[u].state = "RUNNING"}
AllDone == \A u \in Units : futures[u].state = "FINISHED"

\* A pool thread takes the oldest work item of the queue and marks its future
\* running. At most max_workers threads exist, so a unit can be the next to run
\* only if the pending units queued before it, each already taken by a thread,
\* and the running ones leave a thread for it.
\* Mutant: a unit that failed is taken up again.
CanStart_Retry(u) ==
    /\ futures[u].state = "PENDING" \/ futures[u].exception # NoError
    /\ Cardinality({v \in Pending : v < u}) + Cardinality(Running) < max_workers

\* Mutant: once the pool is shut down, no queued unit is taken any more.
CanStart_OpenOnly(u) ==
    /\ executor = "open"
    /\ futures[u].state = "PENDING"
    /\ Cardinality({v \in Pending : v < u}) + Cardinality(Running) < max_workers

CanStart(u) ==
    /\ futures[u].state = "PENDING"
    /\ Cardinality({v \in Pending : v < u}) + Cardinality(Running) < max_workers

Start(u) ==
    /\ u \in Units
    /\ CanStart(u)
    /\ futures' = [futures EXCEPT ![u].state = "RUNNING"]
    /\ frames' = [frames EXCEPT ![u].at = "check"]
    /\ began_cancelled' = IF is_cancelled THEN began_cancelled \cup {u}
                          ELSE began_cancelled
    /\ UNCHANGED <<prep, posted,
                   metadata, applied, reqs, ctl, inputs, async_result, last, finalize_calls,
                   job, executor, server_resp, is_cancelled, transferred_size,
                   at_cancel>>

\* `if job.is_cancelled: return`
SkipsUpload(cancelled) == cancelled

\* _do_upload up to the chunk request: the flag check, then upload_blocking reads
\* the chunk and posts it.
CheckFlag(u) ==
    /\ u \in Units
    /\ frames[u].at = "check"
    /\ IF SkipsUpload(is_cancelled)
       THEN /\ frames' = [frames EXCEPT ![u].at = "skipped"]
            /\ futures' = [futures EXCEPT ![u].state = "FINISHED"]
            /\ reqs' = reqs
       ELSE /\ frames' = [frames EXCEPT ![u].at = "upload"]
            /\ futures' = futures
            /\ reqs' = [reqs EXCEPT !.chunk[u] = @ + 1]
    /\ UNCHANGED <<prep, posted,
                   metadata, applied, ctl, inputs, async_result, last, finalize_calls, job,
                   executor, server_resp, is_cancelled, transferred_size,
                   began_cancelled, at_cancel>>

\* not (resp_dict['size'] == len(data) and resp_dict['checksum'] == hexdigest)
Mismatch(ack) == ~(ack.size_ok /\ ack.checksum_ok)

\* What upload_blocking does on the outcome of its chunk request: "raise" when
\* mc.post raised, "cancel" when the acknowledgement does not match (the cancel
\* request is posted before the error is raised), "ok" otherwise.
upload_blocking(outcome) ==
    IF outcome.raised THEN "raise"
    ELSE IF Mismatch(outcome.resp) THEN "cancel"
    ELSE "ok"

\* The chunk request completes. On success the worker is back in _do_upload and
\* reads job.transferred_size, the first half of `+=`.
Upload(u) ==
    /\ u \in Units
    /\ frames[u].at = "upload"
    /\ \E outcome \in ChunkOutcomes :
        LET step == upload_blocking(outcome)
        IN  /\ frames' = [frames EXCEPT ![u] =
                    IF step = "ok" THEN [at |-> "store", loaded |-> transferred_size]
                    ELSE IF step = "cancel" THEN [at |-> "cancel", loaded |-> 0]
                    ELSE [at |-> "raised", loaded |-> 0]]
            /\ futures' = [futures EXCEPT ![u] =
                    IF step = "raise"
                    THEN [state |-> "FINISHED",
                          exception |-> Raise("ClientError", "transport", u)]
                    ELSE @]
            /\ reqs' = [reqs EXCEPT !.unit_cancel[u] =
                    IF step = "cancel" THEN @ + 1 ELSE @]
    /\ UNCHANGED <<prep, posted,
                   metadata, applied, ctl, inputs, async_result, last, finalize_calls, job,
                   executor, server_resp, is_cancelled, transferred_size,
                   began_cancelled, at_cancel>>

\* The cancel request posted on a mismatch completes and the error is raised:
\* the mismatch error, or the ClientError of the cancel request itself.
RaiseMismatch(u) ==
    /\ u \in Units
    /\ frames[u].at = "cancel"
    /\ \E can \in CancelOutcomes :
        futures' = [futures EXCEPT ![u] =
            [state |-> "FINISHED",
             exception |-> IF can.raised
                           THEN Raise("ClientError", "transport", u)
                           ELSE Raise("ClientError", "mismatch", u)]]
    /\ frames' = [frames EXCEPT ![u].at = "failed"]
    /\ UNCHANGED <<prep, posted,
                   metadata, applied, reqs, ctl, inputs, async_result, last, finalize_calls,
                   job, executor, server_resp, is_cancelled, transferred_size,
                   began_cancelled, at_cancel>>

\* job.transferred_size += item.size, second half: the sum of the value read
\* and the item's size is written back.
Increment(loaded, current, size) == loaded + size

Store(u) ==
    /\ u \in Units
    /\ frames[u].at = "store"
    /\ transferred_size' = Increment(frames[u].loaded, transferred_size, Item(u).size)
    /\ frames' = [frames EXCEPT ![u] = [at |-> "done", loaded |-> 0]]
    /\ futures' = [futures EXCEPT ![u].state = "FINISHED"]
    /\ UNCHANGED <<prep, posted,
                   metadata, applied, reqs, ctl, inputs, async_result, last, finalize_calls,
                   job, executor, server_resp, is_cancelled, began_cancelled,
                   at_cancel>>

\* ---------------------------------------------------------------- caller
\* push_project_wait: concurrent.futures.wait blocks until every future is done.
WaitCall ==
    /\ ctl = "ready"
    /\ ctl' = "wait"
    /\ last' = NoCall
    /\ UNCHANGED <<prep, posted,
                   metadata, applied, reqs, inputs, async_result, finalize_calls, jobvars>>

\* The futures, in submission order, that hold an exception.
Failed(fs) == {u \in 1..Len(fs) : fs[u].exception # NoError}

\* Mutant: the error of the last failed future is raised.
push_project_wait_Last(fs) ==
    IF Failed(fs) = {} THEN Returned("None")
    ELSE Raised(fs[CHOOSE u \in Failed(fs) : \A v \in Failed(fs) : u >= v].exception)

\* for future in job.futures: if future.exception() is not None: raise it
push_project_wait(fs) ==
    IF Failed(fs) = {} THEN Returned("None")
    ELSE Raised(fs[CHOOSE u \in Failed(fs) : \A v \in Failed(fs) : u <= v].exception)

WaitReturn ==
    /\ ctl = "wait"
    /\ AllDone
    /\ last' = Call("wait", push_project_wait(futures))
    /\ ctl' = "ready"
    /\ UNCHANGED <<prep, posted,
                   metadata, applied, reqs, inputs, async_result, finalize_calls, jobvars>>

\* for future in job.futures: if future.running(): return True
\* (running() is True only while the call is being executed: a queued future
\* is pending, not running). The futures are read in one step.
push_project_is_running(fs) == \E u \in 1..Len(fs) : fs[u].state = "RUNNING"

\* Mutant: the poll takes the exceptions out of the finished futures.
IsRunning_Consuming ==
    /\ ctl = "ready"
    /\ last' = Call("is_running",
                    Returned(IF push_project_is_running(futures)
                             THEN "True" ELSE "False"))
    /\ futures' = [u \in DOMAIN futures |->
                      IF futures[u].state = "FINISHED"
                      THEN [futures[u] EXCEPT !.exception = NoError]
                      ELSE futures[u]]
    /\ UNCHANGED <<prep, posted, metadata, applied, reqs, ctl, inputs,
                   async_result, finalize_calls, job, executor, server_resp,
                   is_cancelled, transferred_size, frames, began_cancelled,
                   at_cancel>>

IsRunning ==
    /\ ctl = "ready"
    /\ last' = Call("is_running",
                    Returned(IF push_project_is_running(futures)
                             THEN "True" ELSE "False"))
    /\ UNCHANGED <<prep, posted,
                   metadata, applied, reqs, ctl, inputs, async_result, finalize_calls,
                   jobvars>>

\* push_project_cancel: the flag is set, then executor.shutdown(wait=True).
InFlight == {u \in Units : frames[u].at \in {"upload", "cancel", "store"}}

CancelCall ==
    /\ ctl = "ready"
    /\ is_cancelled' = TRUE
    /\ executor' = "shutdown"
    /\ at_cancel' = IF is_cancelled THEN at_cancel
                    ELSE [inflight |-> InFlight, transferred |-> transferred_size]
    /\ ctl' = "cancel"
    /\ last' = NoCall
    /\ UNCHANGED <<prep, posted,
                   metadata, applied, reqs, inputs, async_result, finalize_calls, job,
                   server_resp, transferred_size, futures, frames, began_cancelled>>

\* Mutant: shutdown(wait=False) returns at once.
ShutdownDone_NoWait == TRUE

\* shutdown(wait=True) joins the pool's threads, which exit once the queue is
\* drained: every submitted unit has run to its end.
ShutdownDone == AllDone

CancelReturn ==
    /\ ctl = "cancel"
    /\ ShutdownDone
    /\ last' = Call("cancel", Returned("None"))
    /\ ctl' = "ready"
    /\ UNCHANGED <<prep, posted,
                   metadata, applied, reqs, inputs, async_result, finalize_calls, jobvars>>

\* push_project_finalize called on the pending job: it first shuts the pool down.
FinalizeCall ==
    /\ ctl = "ready"
    /\ finalize_calls < MaxFinalize
    /\ finalize_calls' = finalize_calls + 1
    /\ executor' = "shutdown"
    /\ ctl' = "finalize"
    /\ last' = NoCall
    /\ UNCHANGED <<prep, posted,
                   metadata, applied, reqs, inputs, async_result, job, server_resp,
                   is_cancelled, transferred_size, futures, frames,
                   began_cancelled, at_cancel>>

FinalizeReturn ==
    /\ ctl = "finalize"
    /\ ShutdownDone
    /\ \E fin \in FinishOutcomes, can \in CancelOutcomes :
        LET f == push_project_finalize(job, executor # "None", transferred_size,
                                       server_resp, metadata, applied, reqs,
                                       fin, can)
        IN  /\ metadata' = f.metadata
            /\ applied' = f.applied
            /\ server_resp' = f.server_resp
            /\ reqs' = f.reqs
            /\ last' = Call("finalize", f.result)
            /\ posted' = f.posted
    /\ ctl' = "ready"
    /\ UNCHANGED <<prep,
                   inputs, async_result, finalize_calls, job, executor, is_cancelled,
                   transferred_size, futures, frames, began_cancelled,
                   at_cancel>>

\* ---------------------------------------------------------------- specification
Next ==
    \/ AsyncStaleVersion
    \/ AsyncNoStorage
    \/ AsyncNoChanges
    \/ AsyncBeginFails
    \/ AsyncNoUpload
    \/ AsyncStartUpload
    \/ \E u \in 1..MaxUnits : Start(u)
    \/ \E u \in 1..MaxUnits : CheckFlag(u)
    \/ \E u \in 1..MaxUnits : Upload(u)
    \/ \E u \in 1..MaxUnits : RaiseMismatch(u)
    \/ \E u \in 1..MaxUnits : Store(u)
    \/ WaitCall
    \/ WaitReturn
    \/ IsRunning
    \/ CancelCall
    \/ CancelReturn
    \/ FinalizeCall
    \/ FinalizeReturn

Spec == Init /\ [][Next]_vars

\* The steps of the worker thread that runs unit u.
Worker(u) ==
    \/ Start(u)
    \/ CheckFlag(u)
    \/ Upload(u)
    \/ RaiseMismatch(u)
    \/ Store(u)

\* What the threads are granted: a worker that can take a step takes one (the
\* threads are scheduled fairly and every request returns or fails), and a call
\* of the controlling thread that can return does. Nothing obliges the caller
\* to make a call.
Fairness ==
    /\ \A u \in 1..MaxUnits : WF_vars(Worker(u))
    /\ WF_vars(WaitReturn)
    /\ WF_vars(CancelReturn)
    /\ WF_vars(FinalizeReturn)

\* The state in which push_project_async returns a job: one added file of k
\* chunks, its units submitted to the pool.
Submitted(k) ==
    LET changes == MakeChanges(<<(k - 1) * UPLOAD_CHUNK_SIZE + 1>>, 1, 0, 0)
        items == UploadQueueItems(UploadFiles(changes), "T1")
    IN  /\ metadata = [name |-> ProjectName, version |-> "v1", files |-> "local"]
        /\ applied = 0
        /\ reqs = [NoReqs EXCEPT !.begin = 1,
                                 !.chunk = [u \in 1..Len(items) |-> 0],
                                 !.unit_cancel = [u \in 1..Len(items) |-> 0]]
        /\ ctl = "ready"
        /\ inputs = NoInputs
        /\ async_result = Returned("job")
        /\ last = NoCall
        /\ finalize_calls = 0
        /\ job = [UploadJob(ProjectName, changes, "T1")
                    EXCEPT !.total_size = TotalSize(UploadFiles(changes)),
                           !.upload_queue_items = items]
        /\ executor = "open"
        /\ server_resp = NoServerResp
        /\ is_cancelled = FALSE
        /\ transferred_size = 0
        /\ futures = [u \in 1..Len(items) |->
                        [state |-> "PENDING", exception |-> NoError]]
        /\ frames = [u \in 1..Len(items) |-> [at |-> "queued", loaded |-> 0]]
        /\ began_cancelled = {}
        /\ at_cancel = [inflight |-> {}, transferred |-> 0]
        /\ posted = NotPosted
        /\ prep = NoPrep

FairInit == \E k \in 1..MaxUnits : Submitted(k)

\* The job from there on: the workers and the calls of the controlling thread.
FairNext ==
    \/ \E u \in 1..MaxUnits : Start(u)
    \/ \E u \in 1..MaxUnits : CheckFlag(u)
    \/ \E u \in 1..MaxUnits : Upload(u)
    \/ \E u \in 1..MaxUnits : RaiseMismatch(u)
    \/ \E u \in 1..MaxUnits : Store(u)
    \/ WaitCall
    \/ WaitReturn
    \/ IsRunning
    \/ CancelCall
    \/ CancelReturn
    \/ FinalizeCall
    \/ FinalizeReturn

FairSpec == FairInit /\ [][FairNext]_vars /\ Fairness

\* ---------------------------------------------------------------- one push, file by file
\* The same push followed through the loop of push_project_async over the files
\* to upload and through upload_blocking, with the files on disk in view: the
\* versioned files and their write-ahead logs, the diff payloads, the bytes
\* read and sent. The units run one after the other, in queue order.

\* Sizes of the file under study: around each multiple of the chunk size.
PrepSizes ==
    {k * UPLOAD_CHUNK_SIZE + d : k \in 0..MaxUnits, d \in {0 - 1, 0, 1}}
        \cap 0..(MaxUnits * UPLOAD_CHUNK_SIZE)

\* Lengths of a diff payload on disk.
DiffSizes == {1, UPLOAD_CHUNK_SIZE + 1}

\* Bytes pending in the write-ahead log of a versioned file (0: none).
WalSizes == {0, 4096}

\* A file on disk: the length and the content of the main file, and the bytes
\* waiting in its write-ahead log.
DiskFile(f, len, wal) == [len |-> len, content |-> <<f>>, wal |-> wal]

\* Checkpoint: the write-ahead log is folded into the main file.
do_sqlite_checkpoint(file) ==
    IF file.wal = 0 THEN file
    ELSE [len |-> file.len + file.wal,
          content |-> Append(file.content, "wal"),
          wal |-> 0]

\* SHA-1 of the main file (a digest that tells any two contents apart).
generate_checksum(file) == [sha1 |-> <<file.len, file.content>>]

\* file_handle.seek(chunk_index * UPLOAD_CHUNK_SIZE);
\* file_handle.read(UPLOAD_CHUNK_SIZE): up to a chunk, less at the end of the
\* file, nothing past it.
ReadChunk(len, chunk_index) ==
    [offset |-> chunk_index * UPLOAD_CHUNK_SIZE,
     len |-> IF len <= chunk_index * UPLOAD_CHUNK_SIZE THEN 0
             ELSE Min(UPLOAD_CHUNK_SIZE, len - chunk_index * UPLOAD_CHUNK_SIZE)]

\* The descriptor of the file at position f as get_push_changes leaves it: size
\* and checksum of the main file as it is on disk, and the diff if there is one.
PrepDesc(f, file, diff) ==
    LET desc == [path |-> f, size |-> file.len,
                 chunks |-> ChunkIds(f, file.len),
                 checksum |-> generate_checksum(file)]
    IN  IF diff = 0 THEN desc
        ELSE [path |-> f, size |-> file.len,
              chunks |-> ChunkIds(f, file.len),
              checksum |-> generate_checksum(file),
              diff |-> [path |-> f, size |-> diff]]

\* One file to upload with what is on disk for it: the main file, whether it
\* is a versioned file, and the length of its diff payload (0: none).
PrepFiles(f) ==
    {[disk |-> DiskFile(f, size, 0), versioned |-> FALSE, diff |-> 0] :
        size \in PrepSizes}
    \cup {[disk |-> DiskFile(f, size, wal), versioned |-> TRUE, diff |-> 0] :
            size \in PrepSizes, wal \in WalSizes}
    \cup {[disk |-> DiskFile(f, size, 0), versioned |-> TRUE, diff |-> d] :
            size \in PrepSizes, d \in DiffSizes}

\* A second, plain file may follow the file under study.
PrepLists ==
    {<<a>> : a \in PrepFiles(1)}
    \cup {<<a, [disk |-> DiskFile(2, size, 0), versioned |-> FALSE, diff |-> 0]>> :
            a \in PrepFiles(1), size \in FileSizes}

\* The state as push_project_async reaches the begin-push request.
PrepStart(files) ==
    [pc |-> "begin",
     upload_files |-> [f \in 1..Len(files) |->
                          PrepDesc(f, files[f].disk, files[f].diff)],
     versioned |-> [f \in 1..Len(files) |-> files[f].versioned],
     disk |-> [f \in 1..Len(files) |-> files[f].disk],
     sent |-> <<>>,
     f |-> 1,
     upload_queue_items |-> <<>>,
     total_size |-> 0,
     u |-> 1,
     data |-> <<>>,
     transferred_size |-> 0,
     result |-> NoResult]

PrepInit == InitJob /\ prep \in {PrepStart(files) : files \in PrepLists}

\* data = {"version": ..., "changes": changes}; mc.post(...): the descriptors
\* go to the server as they are at this point.
PrepBegin ==
    /\ prep.pc = "begin"
    /\ prep' = [prep EXCEPT
                  !.sent = [f \in 1..Len(prep.upload_files) |->
                               prep.upload_files[f].checksum],
                  !.pc = "files"]
    /\ UNCHANGED <<metadata, applied, reqs, ctl, inputs, async_result, last,
                   finalize_calls, posted, jobvars>>

\* if "diff" not in file and mp.is_versioned_file(file["path"])
NeedsCheckpoint(file, versioned) == "diff" \notin DOMAIN file /\ versioned

\* The names the checkpoint branch calls.
CheckpointNames == {"do_sqlite_checkpoint", "generate_checksum"}

\* The checkpoint branch is entered and calls a name the module does not bind:
\* push_project_async ends in NameError.
PrepCheckpointRaises ==
    /\ prep.pc = "files"
    /\ NeedsCheckpoint(prep.upload_files[prep.f], prep.versioned[prep.f])
    /\ "do_sqlite_checkpoint" \notin ModuleNames
    /\ prep' = [prep EXCEPT
                  !.result = Raised(Builtin("NameError", "do_sqlite_checkpoint")),
                  !.pc = "end"]
    /\ UNCHANGED <<metadata, applied, reqs, ctl, inputs, async_result, last,
                   finalize_calls, posted, jobvars>>

\* One turn of the loop over upload_files: the checkpoint and the new checksum
\* where they apply, the location, the units of the file, its size added to
\* total_size. After the last file the units are submitted.
PrepFile ==
    /\ prep.pc = "files"
    /\ LET f == prep.f
           file == prep.upload_files[f]
           needs == NeedsCheckpoint(file, prep.versioned[f])
           disk == IF needs THEN do_sqlite_checkpoint(prep.disk[f])
                   ELSE prep.disk[f]
           items == prep.upload_queue_items \o FileItems(file, "T1")
       IN  /\ needs => CheckpointNames \subseteq ModuleNames
           /\ prep' = [prep EXCEPT
                  !.disk[f] = disk,
                  !.upload_files[f].checksum =
                        IF needs THEN generate_checksum(disk) ELSE @,
                  !.upload_queue_items = items,
                  !.total_size = @ + file.size,
                  !.f = f + 1,
                  !.pc = IF f < Len(prep.upload_files) THEN "files"
                         ELSE IF items = <<>> THEN "end" ELSE "upload"]
    /\ UNCHANGED <<metadata, applied, reqs, ctl, inputs, async_result, last,
                   finalize_calls, posted, jobvars>>

\* The length of what is on disk at a unit's file_path.
SourceLen(location) ==
    IF location.dir = "meta"
    THEN prep.upload_files[location.path].diff.size
    ELSE prep.disk[location.path].len

\* _do_upload of the next unit: upload_blocking reads and sends the data, the
\* server acknowledges what it received, and the unit's size is added.
PrepUpload ==
    /\ prep.pc = "upload"
    /\ LET item == prep.upload_queue_items[prep.u]
           sent == ReadChunk(SourceLen(item.file_path), item.chunk_index)
       IN  prep' = [prep EXCEPT
                  !.data = Append(@, sent),
                  !.transferred_size = @ + item.size,
                  !.u = @ + 1,
                  !.pc = IF prep.u < Len(prep.upload_queue_items)
                         THEN "upload" ELSE "end"]
    /\ UNCHANGED <<metadata, applied, reqs, ctl, inputs, async_result, last,
                   finalize_calls, posted, jobvars>>

PrepNext ==
    \/ PrepBegin
    \/ PrepCheckpointRaises
    \/ PrepFile
    \/ PrepUpload

PrepSpec == PrepInit /\ [][PrepNext]_vars

\* ---------------------------------------------------------------- properties
\* The local metadata is what it was before the push.
MetadataUntouched ==
    /\ metadata.name = ProjectName
    /\ metadata.files = "local"
    /\ metadata.version \in LocalVersions
    /\ applied = 0

\* The units whose chunk upload went through: acknowledged with matching size
\* and checksum, and their size added to the counter.
Uploaded == {u \in Units : frames[u].at = "done"}

\* The units whose chunk upload was acknowledged with a mismatch.
Mismatched == {u \in Units : frames[u].at \in {"cancel", "failed"}}

SizeOf(us) == SumSeq([u \in Units |-> IF u \in us THEN Item(u).size ELSE 0])

\* C1: when every unit's upload succeeded and the job was never cancelled, the
\* transferred byte count equals the total once all units have completed (and
\* so the assertion of finalize passes), whatever the interleaving of the
\* workers' reads and writes of the counter.
C1_AllUploadedReachesTotal ==
    (executor # "None" /\ ~is_cancelled /\ Uploaded = Units)
        => /\ transferred_size = job.total_size
           /\ last.call = "finalize" => last.result.exc.type # "AssertionError"

\* C2: once a chunk upload of the job was acknowledged with a different size or
\* checksum, (a) the unit has issued a cancel request for the transaction, already
\* while its error is not yet raised, and (b) no finish request is ever issued
\* and the local metadata is never overwritten, whatever the caller does.
C2_MismatchCancelsAndNeverFinishes ==
    \A u \in Mismatched :
        /\ reqs.unit_cancel[u] = 1
        /\ Item(u).transaction_id = job.transaction_id
        /\ frames[u].at = "cancel" => futures[u].exception = NoError
        /\ frames[u].at = "failed" => futures[u].exception.type = "ClientError"
        /\ reqs.finish = 0
        /\ MetadataUntouched

\* A unit failed on a mismatch and the caller's finalize has run to its end.
C2_Witness ==
    /\ \E u \in Units : frames[u].at = "failed"
    /\ last.call = "finalize"

\* C3: when the local version differs from the server's (an absent one counting
\* as "v0"), push_project_async raises, no begin-push, chunk, finish or cancel
\* request is issued, no job is created and the local metadata is unchanged.
C3_StaleVersionRejected ==
    (inputs.called
     /\ inputs.local_version #
            (IF inputs.server_version = "" THEN "v0" ELSE inputs.server_version))
        => /\ async_result.outcome = "raised"
           /\ async_result.exc.type = "ClientError"
           /\ reqs = NoReqs
           /\ ~job.exists
           /\ executor = "None"
           /\ MetadataUntouched
           /\ metadata.version = inputs.local_version

\* The push was rejected for a local "v1" against a server without a version.
C3_Witness ==
    /\ inputs.called
    /\ inputs.local_version = "v1"
    /\ inputs.server_version = ""
    /\ async_result.outcome = "raised"

\* The call got as far as the storage check: the versions agree.
VersionsAgree ==
    /\ inputs.called
    /\ inputs.local_version =
          (IF inputs.server_version = "" THEN "v0" ELSE inputs.server_version)

\* C4: with equal versions and too little storage, push_project_async rejects
\* the push with a quota error (SyncError) that is not the stale-version error
\* and carries the free space left, before any begin-push request is issued.
C4_QuotaExceededRejected ==
    (VersionsAgree /\ ~inputs.enough_free_space)
        => /\ async_result.outcome = "raised"
           /\ async_result.exc.type = "SyncError"
           /\ async_result.exc.extra = inputs.freespace \div (1024 * 1024)
           /\ reqs.begin = 0
           /\ ~job.exists

\* The changes of the call, by shape.
AllFourEmpty ==
    /\ inputs.changes.added = <<>>
    /\ inputs.changes.updated = <<>>
    /\ inputs.changes.removed = <<>>
    /\ inputs.changes.renamed = <<>>

OnlyRemovedOrRenamed ==
    /\ inputs.changes.added = <<>>
    /\ inputs.changes.updated = <<>>
    /\ ~AllFourEmpty

\* C5, as claimed: with a change set empty in all four categories no begin-push
\* request is issued and finalize is invoked with no executor and succeeds.
C5_EmptyChangesFinalized ==
    (VersionsAgree /\ inputs.enough_free_space /\ AllFourEmpty)
        => /\ reqs.begin = 0
           /\ executor = "None"
           /\ finalize_calls = 1
           /\ last = Call("finalize", Returned("None"))

\* C5, amended: with a change set empty in all four categories
\* push_project_async issues no request at all, creates no job, does not invoke
\* finalize, leaves the local metadata alone and returns None.
C5_EmptyChangesNoOp ==
    (VersionsAgree /\ inputs.enough_free_space /\ AllFourEmpty)
        => /\ reqs = NoReqs
           /\ ~job.exists
           /\ executor = "None"
           /\ finalize_calls = 0
           /\ last = NoCall
           /\ async_result = Returned("None")
           /\ MetadataUntouched

\* A push of an empty change set has returned.
C5_Witness ==
    /\ VersionsAgree
    /\ inputs.enough_free_space
    /\ AllFourEmpty
    /\ ctl = "end"
    /\ async_result.outcome = "returned"

\* What C6 claims of a push of removals and renames only.
NoUploadCommitted ==
    /\ reqs.begin = 1
    /\ reqs.finish = 0
    /\ reqs.cancel = 0
    /\ reqs.chunk = <<>>
    /\ job.exists
    /\ job.transaction_id = "None"
    /\ executor = "None"
    /\ finalize_calls = 1
    /\ ~inputs.begin.raised
    /\ "version" \in DOMAIN inputs.begin.resp
    /\ metadata = [name |-> ProjectName,
                   version |-> inputs.begin.resp.version,
                   files |-> inputs.begin.resp.files]
    /\ applied = 1
    /\ async_result = Returned("None")

\* C6, as claimed: a non-empty change set without added and updated files makes
\* push_project_async issue one begin-push request, create a job without
\* transaction id and executor, finalize it once, issue no other request,
\* overwrite the local metadata from the begin-push response and return None.
C6_NoUploadCommitted ==
    (VersionsAgree /\ inputs.enough_free_space /\ OnlyRemovedOrRenamed)
        => NoUploadCommitted

\* C6, amended: that holds when the begin-push request returns a response
\* without an 'error' field. When the response carries one, the job is created
\* and finalized once but finalize raises ClientError out of push_project_async;
\* when the request itself raises, its ClientError propagates and no job is
\* created. In both cases one begin-push request is the only request issued and
\* the local metadata is unchanged.
C6_NoUploadCommittedUnlessRefused ==
    (VersionsAgree /\ inputs.enough_free_space /\ OnlyRemovedOrRenamed)
        => /\ reqs = [NoReqs EXCEPT !.begin = 1]
           /\ executor = "None"
           /\ job.transaction_id = "None"
           /\ IF inputs.begin.raised
              THEN /\ ~job.exists
                   /\ finalize_calls = 0
                   /\ async_result.outcome = "raised"
                   /\ async_result.exc.type = "ClientError"
                   /\ MetadataUntouched
              ELSE IF "error" \in DOMAIN inputs.begin.resp
              THEN /\ job.exists
                   /\ finalize_calls = 1
                   /\ async_result.outcome = "raised"
                   /\ async_result.exc.type = "ClientError"
                   /\ async_result.exc.detail = inputs.begin.resp.error
                   /\ MetadataUntouched
              ELSE NoUploadCommitted

\* A push of removals or renames only was committed from the begin response.
C6_Witness ==
    /\ VersionsAgree
    /\ inputs.enough_free_space
    /\ OnlyRemovedOrRenamed
    /\ metadata.files = "server"
    /\ applied = 1

\* The units that ended with an error.
FailedUnits == {u \in Units : frames[u].at \in {"failed", "raised"}}

\* C7: push_project_wait returns or raises only once every future is done; it
\* raises exactly when some unit failed, and then the error of the failed unit
\* that is first in submission order; otherwise it returns None, skipped units
\* included.
C7_WaitReraisesFirstFailure ==
    last.call = "wait"
        => /\ AllDone
           /\ (last.result.outcome = "raised") <=> (FailedUnits # {})
           /\ FailedUnits = {} => last.result = Returned("None")
           /\ \A u \in FailedUnits :
                 (\A v \in FailedUnits : u <= v)
                     => /\ last.result.exc = futures[u].exception
                        /\ last.result.exc.extra = u

\* Wait has raised on a job of which two units failed.
C7_Witness ==
    /\ last.call = "wait"
    /\ last.result.outcome = "raised"
    /\ Cardinality(FailedUnits) >= 2

\* C8: push_project_is_running returns True whenever some submitted unit has not
\* finished, so once it has returned False every upload of the job is finished.
C8_NotRunningMeansFinished ==
    (last.call = "is_running" /\ last.result.value = "False") => AllDone

\* C9: after push_project_cancel, every unit that began executing with the flag
\* set is skipped (no chunk request, no error), every unit that was past the
\* flag check when cancel was called has issued its chunk request and is not
\* skipped, and the size of each of those whose upload went through is added to
\* transferred_size.
C9_CancelSkipsUnstartedCountsInflight ==
    /\ \A u \in began_cancelled :
          /\ reqs.chunk[u] = 0
          /\ futures[u].exception = NoError
          /\ futures[u].state = "FINISHED" => frames[u].at = "skipped"
    /\ \A u \in at_cancel.inflight :
          /\ reqs.chunk[u] = 1
          /\ frames[u].at # "skipped"
    /\ (is_cancelled /\ AllDone)
          => transferred_size =
                at_cancel.transferred + SizeOf(at_cancel.inflight \cap Uploaded)

\* push_project_cancel has returned (a later call of it may be in progress).
CancelReturned == is_cancelled /\ ctl # "cancel"

\* C10: once push_project_cancel has returned, every future is done, no worker
\* is executing a unit and push_project_is_running is False; and from then on no
\* chunk request is issued and transferred_size, the futures and the workers'
\* positions no longer change.
C10_CancelReturnsAfterWorkersExit ==
    /\ [](CancelReturned
            => /\ AllDone
               /\ Running = {}
               /\ ~push_project_is_running(futures))
    /\ [][CancelReturned
            => /\ reqs'.chunk = reqs.chunk
               /\ transferred_size' = transferred_size
               /\ futures' = futures
               /\ frames' = frames]_vars

\* Cancel has returned on a job with an uploaded and a skipped unit.
C10_Witness ==
    /\ last.call = "cancel"
    /\ \E u \in Units : frames[u].at = "done"
    /\ \E u \in Units : frames[u].at = "skipped"

\* The finish request of the last push_project_finalize was issued and failed
\* with a ClientError.
FinishFailed == last.call = "finalize" /\ posted.finish = "raised"

\* C11: when the finish request of push_project_finalize, for a job with a
\* transaction id, fails with a ClientError, a cancel request is issued,
\* finalize returns the {'error': ...} result instead of raising, and the local
\* metadata is not overwritten and apply_push_changes is not called.
C11_FinishFailureReturnsError ==
    (FinishFailed /\ job.transaction_id # "None")
        => /\ reqs.cancel >= 1
           /\ last.result = Returned("error")
           /\ finalize_calls = 1 => (MetadataUntouched /\ applied = 0)

\* The push of a job that holds a transaction has ended without a commit:
\* push_project_cancel has returned, or push_project_finalize has ended in an
\* error (assertion failure, failed finish request, 'error' in the response).
EndedUncommitted ==
    /\ job.transaction_id # "None"
    /\ \/ last.call = "cancel"
       \/ last.call = "finalize" /\ last.result # Returned("None")

\* A cancel request has been issued for the transaction, by finalize or by a
\* unit.
CancelRequested ==
    \/ reqs.cancel >= 1
    \/ \E u \in DOMAIN reqs.unit_cancel : reqs.unit_cancel[u] >= 1

\* C12: whenever the push of a transaction ends without a successful commit, a
\* cancel request for the transaction has been issued.
C12_PartialTransactionCancelled == EndedUncommitted => CancelRequested

\* C13: in every reachable state of a push job, whatever the interleaving of
\* the workers, the failures and the cancellation, transferred_size lies
\* between 0 and total_size (every file's chunk list has the length
\* ceil(size / UPLOAD_CHUNK_SIZE), as get_push_changes builds it).
C13_TransferredWithinTotal ==
    job.exists => (0 <= transferred_size /\ transferred_size <= job.total_size)

\* A cancelled job of several units, all of them done, of which some but not
\* all have been counted.
C13_Witness ==
    /\ Len(job.upload_queue_items) >= 2
    /\ 0 < transferred_size
    /\ transferred_size < job.total_size
    /\ AllDone
    /\ is_cancelled

\* C14: for a versioned file uploaded without a diff, the checksum sent to the
\* server in the begin-push request is the checksum of the content the chunk
\* uploads read, which is the main file with its write-ahead log folded in: the
\* checkpoint and the new checksum come before the request.
C14_SentChecksumIsOfUploadedContent ==
    \A f \in DOMAIN prep.sent :
        NeedsCheckpoint(prep.upload_files[f], prep.versioned[f])
            => /\ prep.disk[f].wal = 0
               /\ prep.sent[f] = generate_checksum(prep.disk[f])

\* The loop over upload_files has ended without an error.
Prepared == prep.pc \in {"upload", "end"} /\ prep.result = NoResult

\* The units created for the file at position f, in queue order.
ItemsOf(f) ==
    LET of_file(item) == item.file_path = Location(prep.upload_files[f])
    IN  SelectSeq(prep.upload_queue_items, of_file)

IsRunningStep == last' # last /\ last'.call = "is_running"

\* C16: a call of push_project_is_running, before, during or after the uploads,
\* returns (it never raises) and leaves the job as it is: the futures with their
\* results and exceptions, transferred_size, total_size, is_cancelled, the
\* executor and server_resp. At every moment, polled or not, the future of a
\* failed unit holds the unit's exception, and a push_project_wait that ends
\* raises it.
C16_IsRunningLeavesJobUnchanged ==
    /\ [][IsRunningStep
            => /\ last'.result.outcome = "returned"
               /\ futures' = futures
               /\ transferred_size' = transferred_size
               /\ job' = job
               /\ is_cancelled' = is_cancelled
               /\ executor' = executor
               /\ server_resp' = server_resp]_vars
    /\ [](\A u \in FailedUnits : futures[u].exception # NoError)
    /\ []((last.call = "wait" /\ FailedUnits # {})
            => last.result.outcome = "raised")

\* push_project_is_running has been called after every unit was done, one of
\* them failed, and the failure is still in its future.
C16_Witness ==
    /\ last.call = "is_running"
    /\ AllDone
    /\ \E u \in FailedUnits : futures[u].exception # NoError
    /\ \E u \in Units : frames[u].at = "done"

\* C17: every unit's upload_blocking sends `size` bytes, those of its source
\* from the offset chunk_index * UPLOAD_CHUNK_SIZE on, so that what a unit adds
\* to transferred_size is the number of bytes it sent, also when the source on
\* disk is a diff payload whose length is not the descriptor's size.
C17_SentBytesEqualUnitSize ==
    /\ \A u \in DOMAIN prep.data :
          /\ prep.data[u].offset =
                prep.upload_queue_items[u].chunk_index * UPLOAD_CHUNK_SIZE
          /\ prep.data[u].len = prep.upload_queue_items[u].size
    /\ prep.pc # "off"
          => prep.transferred_size =
                SumSeq([u \in DOMAIN prep.data |-> prep.data[u].len])

\* This step ends a push_project_finalize: the call made on a job, or the one
\* push_project_async makes itself when there is no file to upload.
FinalizeEnds ==
    \/ ctl = "finalize" /\ ctl' # "finalize"
    \/ ctl = "idle" /\ last'.call = "finalize"

\* C18: the local metadata is overwritten (name, version and files of the
\* server response) and apply_push_changes is called only by a
\* push_project_finalize that ends without error, with transferred_size equal
\* to total_size and no 'error' in the server response; a
\* push_project_finalize that ends in an error (assertion failure, ClientError
\* on finish, 'error' in the response) leaves the metadata as it was and does
\* not call apply_push_changes.
C18_MetadataOnlyOnSuccess ==
    [][/\ (metadata' # metadata \/ applied' # applied)
            => /\ FinalizeEnds
               /\ last'.result = Returned("None")
       /\ (FinalizeEnds /\ last'.result = Returned("None"))
            => /\ transferred_size = job'.total_size
               /\ "error" \notin DOMAIN server_resp'
               /\ metadata' = [name |-> job'.project_path,
                               version |-> server_resp'.version,
                               files |-> server_resp'.files]
               /\ applied' = applied + 1
       /\ (FinalizeEnds /\ last'.result # Returned("None"))
            => /\ metadata' = metadata
               /\ applied' = applied]_vars

\* push_project_finalize has ended in the ClientError made from the 'error' of
\* the finish response, after the uploads, and the metadata is as it was.
C18_Witness ==
    /\ last.call = "finalize"
    /\ posted.finish = "error"
    /\ last.result.outcome = "raised"
    /\ Units # {}
    /\ MetadataUntouched
    /\ applied = 0

\* The units whose chunk request has been issued.
Requested ==
    {u \in Units :
        frames[u].at \in {"upload", "cancel", "store", "done", "failed", "raised"}}

\* C19: every unit is executed at most once: at most one chunk request is
\* issued per unit, and so per (transaction, chunk id), since no two units share
\* them; transferred_size never exceeds the sizes of the units whose upload went
\* through, each counted once; and a unit that has finished, failed ones
\* included, is never started again nor does its future change.
C19_AtMostOncePerChunk ==
    /\ [](\A u \in Units :
            /\ reqs.chunk[u] <= 1
            /\ reqs.chunk[u] = 1 <=> u \in Requested
            /\ \A v \in Units :
                  (/\ Item(u).transaction_id = Item(v).transaction_id
                   /\ Item(u).chunk_id = Item(v).chunk_id) => u = v)
    /\ [](transferred_size <= SizeOf(Uploaded))
    /\ [][\A u \in Units :
            futures[u].state = "FINISHED"
                => /\ futures'[u] = futures[u]
                   /\ frames'[u] = frames[u]
                   /\ reqs'.chunk[u] = reqs.chunk[u]]_vars

\* Every unit of a job of several units is done, one of them failed after its
\* single chunk request, and push_project_wait has raised.
C19_Witness ==
    /\ AllDone
    /\ Cardinality(Units) >= 2
    /\ \E u \in FailedUnits : reqs.chunk[u] = 1
    /\ last.call = "wait"

\* The controlling thread is inside push_project_wait, push_project_cancel or
\* the pool shutdown of push_project_finalize.
Blocked == ctl \in {"wait", "cancel", "finalize"}

\* C20: with the threads scheduled fairly and every request returning or
\* failing, every unit submitted to the pool is eventually done (it succeeded,
\* failed or was skipped), and a push_project_wait, push_project_cancel or
\* push_project_finalize that was called eventually returns or raises, with
\* every unit done: the controlling thread and the workers never wait on each
\* other for ever.
C20_EveryUnitCompletesAndCallsReturn ==
    /\ \A u \in 1..MaxUnits :
          (u \in Units) ~> (u \in Units /\ futures[u].state = "FINISHED")
    /\ Blocked ~> (~Blocked /\ AllDone)

\* push_project_finalize has ended on a cancelled job of several units, all of
\* them done: one was skipped and one failed.
C20_Witness ==
    /\ last.call = "finalize"
    /\ is_cancelled
    /\ AllDone
    /\ Cardinality(Units) >= 2
    /\ \E u \in Units : frames[u].at = "skipped"
    /\ FailedUnits # {}

====
